---- MODULE Spec2Model ----
(***************************************************************************)
(* Model of the figma-ppt slide pipeline.                                  *)
(*                                                                         *)
(*   build-slides.py       main(): the deck builder (SpecBuild)            *)
(*   serve-and-capture.py  main(): the preview server orchestrator         *)
(*                         together with the processes on the target port  *)
(*                         (SpecServe)                                     *)
(*                                                                         *)
(* Text is modelled as sequences of one-character strings so that          *)
(* str.upper(), str.lower(), str.replace() and the {i:02d} format are      *)
(* computed character by character.                                        *)
(***************************************************************************)
EXTENDS Integers, Sequences, FiniteSets, TLC

\* ------------------------------------------------------------------------
\* Bounds of the model
\* ------------------------------------------------------------------------
MaxSlides ==
    3

MaxEntries ==
    2

MaxRuns ==
    2

\* ------------------------------------------------------------------------
\* Values shared by both programs
\* ------------------------------------------------------------------------
\* dict.get(key, default) on a JSON object (a function whose domain is the
\* set of keys that are present)
Get(obj, key, default) ==
    IF key \in DOMAIN obj THEN obj[key] ELSE default

\* a path at which no file exists
NoFile ==
    [exists |-> FALSE]

\* the port build-slides.py hard-codes into the manifest urls
DefaultPort ==
    7890

\* f"http://localhost:{port}/slides/{fname}"
SlideUrl(p, fname) ==
    [scheme |-> "http", host |-> "localhost", port |-> p,
     path |-> <<"slides", fname>>]

\* ------------------------------------------------------------------------
\* Text helpers
\* ------------------------------------------------------------------------
Lowers ==
    <<"a","b","c","d","e","f","g","h","i","j","k","l","m",
      "n","o","p","q","r","s","t","u","v","w","x","y","z">>

Uppers ==
    <<"A","B","C","D","E","F","G","H","I","J","K","L","M",
      "N","O","P","Q","R","S","T","U","V","W","X","Y","Z">>

Digits ==
    <<"0","1","2","3","4","5","6","7","8","9">>

UpperChar(c) ==
    IF \E k \in DOMAIN Lowers : Lowers[k] = c
    THEN Uppers[CHOOSE k \in DOMAIN Lowers : Lowers[k] = c]
    ELSE c

LowerChar(c) ==
    IF \E k \in DOMAIN Uppers : Uppers[k] = c
    THEN Lowers[CHOOSE k \in DOMAIN Uppers : Uppers[k] = c]
    ELSE c

\* str.upper()
Upper(s) ==
    [k \in DOMAIN s |-> UpperChar(s[k])]

\* str.lower()
Lower(s) ==
    [k \in DOMAIN s |-> LowerChar(s[k])]

\* str.replace(a, b) for one-character a and b
Replace(s, a, b) ==
    [k \in DOMAIN s |-> IF s[k] = a THEN b ELSE s[k]]

RECURSIVE Dec(_)
\* the decimal digits of a natural number
Dec(n) ==
    IF n < 10 THEN <<Digits[n + 1]>>
    ELSE Dec(n \div 10) \o <<Digits[(n % 10) + 1]>>

\* f"{n:02d}"
Pad2(n) ==
    IF n < 10 THEN <<"0">> \o Dec(n) ELSE Dec(n)

\* ------------------------------------------------------------------------
\* build-slides.py
\* ------------------------------------------------------------------------
T_HERO ==
    <<"H","E","R","O">>

T_AGENDA ==
    <<"A","G","E","N","D","A">>

T_CONTENT ==
    <<"C","O","N","T","E","N","T">>

T_TWO_COL ==
    <<"T","W","O","_","C","O","L">>

T_STATS ==
    <<"S","T","A","T","S">>

T_QUOTE ==
    <<"Q","U","O","T","E">>

T_DIVIDER ==
    <<"D","I","V","I","D","E","R">>

T_CLOSING ==
    <<"C","L","O","S","I","N","G">>

\* the keys of the dispatch table
BUILDERS ==
    {T_HERO, T_AGENDA, T_CONTENT, T_TWO_COL, T_STATS, T_QUOTE, T_DIVIDER,
     T_CLOSING}

\* The builders whose code applies an operation to a content value that only
\* values of one kind support: enumerate(items), "for b in bullets",
\* col.get(...), s.get(...), "{num:02d}", "for t in takeaways".
\* slide_hero and slide_quote only interpolate their fields.
KindSensitive ==
    {T_AGENDA, T_CONTENT, T_TWO_COL, T_STATS, T_DIVIDER, T_CLOSING}

\* content records of a slide, by what matters to the control flow of main():
\*   "empty"      {}                       (every field absent)
\*   "wellformed" fields of the kind the builder expects
\*   "wrongkind"  the kind-sensitive field holds a value of another kind
\*                (sectionNumber a text, a stats element that is no record...)
ContentKinds ==
    {"empty", "wellformed", "wrongkind"}

\* builder(content, i, palette, fonts) raises instead of returning
BuilderRaises(stype, content) ==
    stype \in KindSensitive /\ content = "wrongkind"

\* slide records: "type" and "content" are both optional keys
SlideInputs ==
    { [type |-> <<"h","e","r","o">>, content |-> "wellformed"],
      [type |-> <<"h","e","r","o">>, content |-> "wrongkind"],
      [type |-> <<"T","w","o","_","C","o","l">>, content |-> "wellformed"],
      [type |-> T_DIVIDER, content |-> "wrongkind"],
      [type |-> <<"B","O","G","U","S">>, content |-> "wellformed"],
      [type |-> <<"b","o","g","u","s">>],
      [content |-> "wellformed"] }

RECURSIVE SeqsUpTo(_, _)
\* the sequences over S of length at most n
SeqsUpTo(S, n) ==
    IF n = 0 THEN {<<>>}
    ELSE LET shorter == SeqsUpTo(S, n - 1)
         IN  shorter \cup {Append(q, x) : q \in shorter, x \in S}

T_Deck ==
    <<"D","e","c","k">>

F_Inter ==
    <<"I","n","t","e","r">>

F_DM_Sans ==
    <<"D","M"," ","S","a","n","s">>

F_Lora ==
    <<"L","o","r","a">>

FontNameInputs ==
    {F_Inter, F_DM_Sans, F_Lora}

\* fonts records: "display" and "body" are both optional keys
FontsInputs ==
    [display : FontNameInputs, body : FontNameInputs]
        \cup [display : FontNameInputs] \cup [body : FontNameInputs]
        \cup {[k \in {} |-> F_Inter]}

\* plans: "title", "fonts" and "slides" are optional keys; the plans with a
\* fonts record have one HERO slide
PlanInputs ==
    LET lists == SeqsUpTo(SlideInputs, MaxSlides)
    IN  [title : {T_Deck}, slides : lists] \cup [slides : lists]
            \cup {[title |-> T_Deck]}
            \cup [fonts : FontsInputs,
                  slides : {<<[type |-> T_HERO, content |-> "wellformed"]>>}]

\* ------------------------------------------------------------------------
\* State
\* ------------------------------------------------------------------------
VARIABLES
    \* build-slides.py
    plan,           \* the parsed slides-plan.json
    bpc,            \* position of build-slides.py main()
    i,              \* loop variable of "for i, slide in enumerate(slides, 1)"
    slide_files,    \* list of written file names
    results,        \* list of manifest entries
    warnings,       \* WARNING lines printed to stderr
    slides_dir,     \* whether out_dir/slides exists
    pages,          \* out_dir/slides/*.html : file name -> page
    index_html,     \* out_dir/index.html : NoFile or the list of links
    google_fonts_url, \* the font reference computed for the pages
    \* one call builder(content, i, palette, fonts) of the loop body
    r_stype,        \* the type tag that selected the builder
    r_content,      \* the content record passed to it
    r_idx,          \* the slide position passed to it
    rpc,            \* "call", "returned" or "raised"
    slide_html,     \* the fragment it returned
    \* the output location, used by both programs
    out_dir,        \* whether the output directory exists
    manifest_file,  \* out_dir/slide-urls.json
    \* serve-and-capture.py
    port,           \* --port
    kill_only,      \* --kill-only
    spc,            \* position of serve-and-capture.py main()
    run,            \* number of invocations so far
    proc,           \* pid of the process this invocation spawned, or NoProc
    calls,          \* the external calls this invocation made, in order
    initial_probe,  \* outcome of the port_in_use() before the eviction, if made
    probe_log,      \* outcomes of port_in_use() after Popen, in order
    url_data,       \* the manifest as loaded (and mutated) in memory
    output,         \* what this invocation printed to stdout
    \* the processes of the machine
    alive,          \* processes that are running
    pending,        \* spawned servers that have not tried to bind yet
    listener        \* the process accepting connections on the port

buildVars ==
    <<plan, bpc, i, slide_files, results, warnings, slides_dir, pages,
      index_html, google_fonts_url>>

serveVars ==
    <<port, kill_only, spc, run, proc, calls, initial_probe, probe_log,
      url_data,
      output, alive, pending, listener>>

renderVars ==
    <<r_stype, r_content, r_idx, rpc, slide_html>>

vars ==
    <<buildVars, out_dir, manifest_file, serveVars, renderVars>>

\* ------------------------------------------------------------------------
\* build-slides.py main()
\* ------------------------------------------------------------------------
\* slides = plan.get("slides", [])
slides ==
    Get(plan, "slides", <<>>)

\* title = plan.get("title", "Presentation")
title ==
    Get(plan, "title",
        <<"P","r","e","s","e","n","t","a","t","i","o","n">>)

\* stype = slide.get("type", "CONTENT").upper()
SType(slide) ==
    Upper(Get(slide, "type", T_CONTENT))

\* content = slide.get("content", {})
Content(slide) ==
    Get(slide, "content", "empty")

\* slug = stype.lower().replace("_", "-")
Slug(stype) ==
    Replace(Lower(stype), "_", "-")

\* Fname without the loop index in the prefix
FnameWithoutIndex(n, stype) ==
    Pad2(1) \o <<"-">> \o Slug(stype) \o <<".","h","t","m","l">>

\* fname = f"{i:02d}-{slug}.html"
Fname(n, stype) ==
    Pad2(n) \o <<"-">> \o Slug(stype) \o <<".","h","t","m","l">>

\* ManifestEntry with the index taken from the number of slides rendered so
\* far instead of the loop variable
ManifestEntryRenumbered(n, stype) ==
    [index |-> Len(results) + 1, type |-> stype, file |-> Fname(n, stype),
     url |-> SlideUrl(DefaultPort, Fname(n, stype))]

\* the entry appended to results
ManifestEntry(n, stype) ==
    [index |-> n, type |-> stype, file |-> Fname(n, stype),
     url |-> SlideUrl(DefaultPort, Fname(n, stype))]

\* fonts = plan.get("fonts", {"display": "Inter", "body": "Inter"})
fonts ==
    Get(plan, "fonts", [display |-> F_Inter, body |-> F_Inter])

\* the characters of the font terms in the order of their code points
CodePoints ==
    <<"+">> \o Digits \o <<":", ";", "=", "@">> \o Uppers \o Lowers

Ord(c) ==
    CHOOSE k \in DOMAIN CodePoints : CodePoints[k] = c

\* a < b for Python strings
StrLess(a, b) ==
    \E k \in 1..(Len(a) + 1) :
        /\ k <= Len(b)
        /\ \A j \in 1..(k - 1) : a[j] = b[j]
        /\ k = Len(a) + 1 \/ Ord(a[k]) < Ord(b[k])

RECURSIVE Sorted(_)
\* sorted(S) for a set of strings
Sorted(S) ==
    IF S = {} THEN <<>>
    ELSE LET least == CHOOSE x \in S : \A y \in S \ {x} : StrLess(x, y)
         IN  <<least>> \o Sorted(S \ {least})

FamilyEq ==
    <<"f","a","m","i","l","y","=">>

\* ":wght@300;400;500;600;700;800;900"
CustomWeights ==
    <<":","w","g","h","t","@","3","0","0",";","4","0","0",";","5","0","0",
      ";","6","0","0",";","7","0","0",";","8","0","0",";","9","0","0">>

\* ":wght@300;400;500;600;700;800"
FallbackWeights ==
    <<":","w","g","h","t","@","3","0","0",";","4","0","0",";","5","0","0",
      ";","6","0","0",";","7","0","0",";","8","0","0">>

\* build_google_fonts_url(fonts): the sorted family terms of the query
build_google_fonts_url(f) ==
    LET custom == {FamilyEq \o Replace(f[k], " ", "+") \o CustomWeights :
                      k \in DOMAIN f}
        families == custom \cup {FamilyEq \o F_Inter \o FallbackWeights}
    IN  [base |-> "https://fonts.googleapis.com/css2",
         query |-> Sorted(families), display |-> "swap"]

NoUrl ==
    [base |-> "", query |-> <<>>, display |-> ""]

\* make_page(...): the page as far as main() determines it
MakePage(n, stype, content) ==
    [slide_num |-> n, total |-> Len(slides), title |-> title,
     stype |-> stype, content |-> content, fonts_url |-> google_fonts_url]

\* write_text: create or overwrite one file of a directory
WriteFile(dir, name, data) ==
    [f \in DOMAIN dir \cup {name} |-> IF f = name THEN data ELSE dir[f]]

NoPages ==
    [f \in {} |-> 0]

\* ------------------------------------------------------------------------
\* serve-and-capture.py: values
\* ------------------------------------------------------------------------
\* range(20): the retry budget of the readiness loop
MaxRetries ==
    20

\* processes: none, the unrelated process that may hold the port before the
\* first invocation, and the server spawned by the n-th invocation
NoProc ==
    [kind |-> "none"]

ExtProc ==
    [kind |-> "external"]

Server(n) ==
    [kind |-> "http.server", pid |-> n]

NoOutput ==
    [status |-> "none"]

renderIdle ==
    /\ r_stype = T_HERO
    /\ r_content = [k \in {} |-> 0]
    /\ r_idx = 0
    /\ rpc = "idle"
    /\ slide_html = <<>>

serveIdle ==
    /\ port = DefaultPort
    /\ kill_only = FALSE
    /\ spc = "idle"
    /\ run = 0
    /\ proc = NoProc
    /\ calls = <<>>
    /\ initial_probe = <<>>
    /\ probe_log = <<>>
    /\ url_data = NoFile
    /\ output = NoOutput
    /\ alive = {}
    /\ pending = {}
    /\ listener = NoProc

InitBuild ==
    /\ plan \in PlanInputs
    /\ bpc = "start"
    /\ i = 0
    /\ slide_files = <<>>
    /\ results = <<>>
    /\ warnings = <<>>
    /\ slides_dir = FALSE
    /\ pages = NoPages
    /\ index_html = NoFile
    /\ google_fonts_url = NoUrl
    /\ out_dir = FALSE
    /\ manifest_file = NoFile
    /\ serveIdle
    /\ renderIdle

\* if not slides: print("ERROR: No slides in plan."); sys.exit(1)
EmptyPlanExit ==
    /\ bpc = "start"
    /\ slides = <<>>
    /\ bpc' = "exit1"
    /\ UNCHANGED <<plan, google_fonts_url,
                   i, slide_files, results, warnings, slides_dir,
                   pages, index_html, out_dir, manifest_file, serveVars, renderVars>>

\* PrepareDirs without the "if not slides" check in front of it
PrepareDirsUnchecked ==
    /\ bpc = "start"
    /\ out_dir' = TRUE
    /\ slides_dir' = TRUE
    /\ google_fonts_url' = build_google_fonts_url(fonts)
    /\ slide_files' = <<>>
    /\ results' = <<>>
    /\ i' = 1
    /\ bpc' = "loop"
    /\ UNCHANGED <<plan, warnings, pages, index_html, manifest_file,
                   serveVars, renderVars>>

\* slides_dir.mkdir(parents=True, exist_ok=True); css_vars and
\* google_fonts_url are computed; slide_files = []; results = []
PrepareDirs ==
    /\ bpc = "start"
    /\ slides # <<>>
    /\ out_dir' = TRUE
    /\ slides_dir' = TRUE
    /\ google_fonts_url' = build_google_fonts_url(fonts)
    /\ slide_files' = <<>>
    /\ results' = <<>>
    /\ i' = 1
    /\ bpc' = "loop"
    /\ UNCHANGED <<plan, warnings, pages, index_html, manifest_file,
                   serveVars, renderVars>>

\* loop body, "if not builder:" branch: warn and continue
SkipUnknown ==
    /\ bpc = "loop"
    /\ i <= Len(slides)
    /\ SType(slides[i]) \notin BUILDERS
    /\ warnings' = Append(warnings, [stype |-> SType(slides[i]), index |-> i])
    /\ i' = i + 1
    /\ UNCHANGED <<plan, google_fonts_url,
                   bpc, slide_files, results, slides_dir, pages,
                   index_html, out_dir, manifest_file, serveVars, renderVars>>

\* loop body, builder found but builder(content, i, palette, fonts) raises:
\* the exception is not caught, the interpreter prints a traceback and exits
RenderRaises ==
    /\ bpc = "loop"
    /\ i <= Len(slides)
    /\ SType(slides[i]) \in BUILDERS
    /\ BuilderRaises(SType(slides[i]), Content(slides[i]))
    /\ bpc' = "crashed"
    /\ UNCHANGED <<plan, google_fonts_url,
                   i, slide_files, results, warnings, slides_dir,
                   pages, index_html, out_dir, manifest_file, serveVars, renderVars>>

\* loop body, builder found: render, wrap, write the page, append the file
\* name and the manifest entry
RenderSlide ==
    /\ bpc = "loop"
    /\ i <= Len(slides)
    /\ SType(slides[i]) \in BUILDERS
    /\ ~BuilderRaises(SType(slides[i]), Content(slides[i]))
    /\ LET stype == SType(slides[i])
           fname == Fname(i, stype)
       IN  /\ pages' = WriteFile(pages, fname,
                                 MakePage(i, stype, Content(slides[i])))
           /\ slide_files' = Append(slide_files, fname)
           /\ results' = Append(results, ManifestEntry(i, stype))
    /\ i' = i + 1
    /\ UNCHANGED <<plan, google_fonts_url,
                   bpc, warnings, slides_dir, index_html, out_dir,
                   manifest_file, serveVars, renderVars>>

\* make_index(title, slide_files): one link per file name, in order
make_index(t, files) ==
    [title |-> t, links |-> files]

\* (out_dir / "index.html").write_text(make_index(title, slide_files))
WriteIndex ==
    /\ bpc = "loop"
    /\ i > Len(slides)
    /\ index_html' = [exists |-> TRUE, data |-> make_index(title, slide_files)]
    /\ bpc' = "index_written"
    /\ UNCHANGED <<plan, google_fonts_url,
                   i, slide_files, results, warnings, slides_dir,
                   pages, out_dir, manifest_file, serveVars, renderVars>>

\* json.dump({"title": title, "slides": results}, f)
WriteManifest ==
    /\ bpc = "index_written"
    /\ manifest_file' = [exists |-> TRUE, json |-> TRUE,
                         data |-> [title |-> title, slides |-> results]]
    /\ bpc' = "manifest_written"
    /\ UNCHANGED <<plan, google_fonts_url,
                   i, slide_files, results, warnings, slides_dir,
                   pages, index_html, out_dir, serveVars, renderVars>>

\* the closing prints; the last one evaluates slide_files[0], which raises
\* IndexError when no slide was rendered
PrintSummary ==
    /\ bpc = "manifest_written"
    /\ bpc' = IF slide_files = <<>> THEN "crashed" ELSE "done"
    /\ UNCHANGED <<plan, google_fonts_url,
                   i, slide_files, results, warnings, slides_dir,
                   pages, index_html, out_dir, manifest_file, serveVars, renderVars>>

NextBuild ==
    \/ EmptyPlanExit
    \/ PrepareDirs
    \/ SkipUnknown
    \/ RenderRaises
    \/ RenderSlide
    \/ WriteIndex
    \/ WriteManifest
    \/ PrintSummary

SpecBuild ==
    InitBuild /\ [][NextBuild]_vars

\* ------------------------------------------------------------------------
\* serve-and-capture.py main() and the processes on the port
\* ------------------------------------------------------------------------
PortInputs ==
    {DefaultPort, DefaultPort + 1}

\* entries of the manifests the orchestrator is run against: two entries as
\* build-slides.py writes them and one without "file" and "url"
EntryInputs ==
    { ManifestEntry(1, T_HERO),
      ManifestEntry(2, T_TWO_COL),
      [index |-> 3, type |-> T_STATS] }

\* contents of out_dir/slide-urls.json: no file, a file that is not JSON, and
\* JSON objects in which "title" and "slides" are optional keys
ManifestInputs ==
    LET lists == SeqsUpTo(EntryInputs, MaxEntries)
        objs  == [title : {T_Deck}, slides : lists] \cup [slides : lists]
                     \cup {[title |-> T_Deck]}
    IN  {NoFile, [exists |-> TRUE, json |-> FALSE]}
            \cup {[exists |-> TRUE, json |-> TRUE, data |-> d] : d \in objs}

buildIdle ==
    /\ plan = [title |-> T_Deck]
    /\ bpc = "idle"
    /\ i = 0
    /\ slide_files = <<>>
    /\ results = <<>>
    /\ warnings = <<>>
    /\ slides_dir = FALSE
    /\ pages = NoPages
    /\ index_html = NoFile
    /\ google_fonts_url = NoUrl

InitServe ==
    /\ buildIdle
    /\ renderIdle
    /\ out_dir \in BOOLEAN
    /\ manifest_file \in ManifestInputs
    /\ ~out_dir => manifest_file = NoFile
    /\ port \in PortInputs
    /\ kill_only = FALSE
    /\ spc = "idle"
    /\ run = 0
    /\ proc = NoProc
    /\ calls = <<>>
    /\ initial_probe = <<>>
    /\ probe_log = <<>>
    /\ url_data = NoFile
    /\ output = NoOutput
    /\ listener \in {NoProc, ExtProc}
    /\ alive = {listener} \ {NoProc}
    /\ pending = {}

\* port_in_use(port): connect_ex(("localhost", port)) == 0
port_in_use ==
    listener # NoProc

\* kill_port(port): "lsof -t -i:{port} | xargs kill -9 2>/dev/null || true".
\* The processes holding the port are killed when the command works (ok);
\* its failure is silenced, and then nothing changes.
kill_port(ok) ==
    IF ok /\ listener # NoProc
    THEN /\ alive' = alive \ {listener}
         /\ listener' = NoProc
    ELSE UNCHANGED <<alive, listener>>

\* proc.terminate()
terminate(p) ==
    /\ alive' = alive \ {p}
    /\ pending' = pending \ {p}
    /\ listener' = IF listener = p THEN NoProc ELSE listener

SpcEnded ==
    spc \in {"returned", "exit1", "crashed"}

\* one invocation of the script: a serve run or a --kill-only run
Invoke ==
    /\ spc = "idle" \/ SpcEnded
    /\ run < MaxRuns
    /\ run' = run + 1
    /\ kill_only' \in BOOLEAN
    /\ spc' = "start"
    /\ proc' = NoProc
    /\ calls' = <<>>
    /\ initial_probe' = <<>>
    /\ probe_log' = <<>>
    /\ url_data' = NoFile
    /\ output' = NoOutput
    /\ UNCHANGED <<buildVars, renderVars, out_dir, manifest_file, port, alive, pending,
                   listener>>

\* KillOnly probing the port first, as the serve path does
KillOnlyProbing ==
    /\ spc = "start"
    /\ kill_only
    /\ \E ok \in BOOLEAN : kill_port(ok)
    /\ calls' = calls \o <<"port_in_use", "kill_port">>
    /\ output' = [status |-> "killed", port |-> port]
    /\ spc' = "returned"
    /\ UNCHANGED <<buildVars, renderVars, out_dir, manifest_file, port, kill_only, run,
                   initial_probe,
                   proc, probe_log, url_data, pending>>

\* if args.kill_only: kill_port(port); print({"status": "killed", ...}); return
KillOnly ==
    /\ spc = "start"
    /\ kill_only
    /\ \E ok \in BOOLEAN : kill_port(ok)
    /\ calls' = Append(calls, "kill_port")
    /\ output' = [status |-> "killed", port |-> port]
    /\ spc' = "returned"
    /\ UNCHANGED <<buildVars, renderVars, out_dir, manifest_file, port, kill_only, run,
                   initial_probe,
                   proc, probe_log, url_data, pending>>

\* Probe going on to the eviction whatever port_in_use answered
ProbeAlwaysEvicts ==
    /\ spc = "start"
    /\ ~kill_only
    /\ calls' = Append(calls, "port_in_use")
    /\ initial_probe' = <<port_in_use>>
    /\ spc' = "evict"
    /\ UNCHANGED <<buildVars, renderVars, out_dir, manifest_file, port, kill_only, run,
                   proc, probe_log, url_data, output, alive, pending,
                   listener>>

\* if port_in_use(port):
Probe ==
    /\ spc = "start"
    /\ ~kill_only
    /\ calls' = Append(calls, "port_in_use")
    /\ initial_probe' = <<port_in_use>>
    /\ spc' = IF port_in_use THEN "evict" ELSE "check_dir"
    /\ UNCHANGED <<buildVars, renderVars, out_dir, manifest_file, port, kill_only, run,
                   proc, probe_log, url_data, output, alive, pending,
                   listener>>

\*     kill_port(port); time.sleep(1)
Evict ==
    /\ spc = "evict"
    /\ \E ok \in BOOLEAN : kill_port(ok)
    /\ calls' = Append(calls, "kill_port")
    /\ spc' = "check_dir"
    /\ UNCHANGED <<buildVars, renderVars, out_dir, manifest_file, port, kill_only, run,
                   initial_probe,
                   proc, probe_log, url_data, output, pending>>

\* if not out_dir.exists(): print("ERROR: ..."); sys.exit(1)
DirMissing ==
    /\ spc = "check_dir"
    /\ ~out_dir
    /\ calls' = Append(calls, "out_dir.exists")
    /\ spc' = "exit1"
    /\ UNCHANGED <<buildVars, renderVars, out_dir, manifest_file, port, kill_only, run,
                   initial_probe,
                   proc, probe_log, url_data, output, alive, pending,
                   listener>>

\* proc = subprocess.Popen(server_cmd, ...)
Spawn ==
    /\ spc = "check_dir"
    /\ out_dir
    /\ calls' = calls \o <<"out_dir.exists", "Popen">>
    /\ proc' = Server(run)
    /\ alive' = alive \cup {Server(run)}
    /\ pending' = pending \cup {Server(run)}
    /\ spc' = "await"
    /\ UNCHANGED <<buildVars, renderVars, out_dir, manifest_file, port, kill_only, run,
                   initial_probe,
                   probe_log, url_data, output, listener>>

\* AwaitProbe leaving the loop after the first probe whatever its outcome
AwaitProbeUnchecked ==
    /\ spc = "await"
    /\ Len(probe_log) < MaxRetries
    /\ calls' = Append(calls, "port_in_use")
    /\ probe_log' = Append(probe_log, port_in_use)
    /\ spc' = "load"
    /\ UNCHANGED <<buildVars, renderVars, out_dir, manifest_file, port, kill_only, run,
                   initial_probe,
                   proc, url_data, output, alive, pending, listener>>

\* AwaitProbe polling on after a probe has succeeded
AwaitProbePollsOn ==
    /\ spc = "await"
    /\ Len(probe_log) < MaxRetries
    /\ calls' = Append(calls, "port_in_use")
    /\ probe_log' = Append(probe_log, port_in_use)
    /\ spc' = "await"
    /\ UNCHANGED <<buildVars, renderVars, out_dir, manifest_file, port, kill_only, run,
                   initial_probe,
                   proc, url_data, output, alive, pending, listener>>

\* for _ in range(20): time.sleep(0.3); if port_in_use(port): break
AwaitProbe ==
    /\ spc = "await"
    /\ Len(probe_log) < MaxRetries
    /\ calls' = Append(calls, "port_in_use")
    /\ probe_log' = Append(probe_log, port_in_use)
    /\ spc' = IF port_in_use THEN "load" ELSE "await"
    /\ UNCHANGED <<buildVars, renderVars, out_dir, manifest_file, port, kill_only, run,
                   initial_probe,
                   proc, url_data, output, alive, pending, listener>>

\* else: print("ERROR: Server failed to start."); proc.terminate(); sys.exit(1)
AwaitExhausted ==
    /\ spc = "await"
    /\ Len(probe_log) >= MaxRetries
    /\ terminate(proc)
    /\ calls' = Append(calls, "terminate")
    /\ spc' = "exit1"
    /\ UNCHANGED <<buildVars, renderVars, out_dir, manifest_file, port, kill_only, run,
                   initial_probe,
                   proc, probe_log, url_data, output>>

\* if not urls_path.exists(): print("ERROR: ..."); proc.terminate(); sys.exit(1)
ManifestMissing ==
    /\ spc = "load"
    /\ ~manifest_file.exists
    /\ terminate(proc)
    /\ calls' = calls \o <<"urls_path.exists", "terminate">>
    /\ spc' = "exit1"
    /\ UNCHANGED <<buildVars, renderVars, out_dir, manifest_file, port, kill_only, run,
                   initial_probe,
                   proc, probe_log, url_data, output>>

\* url_data = json.load(f), raising JSONDecodeError: not caught
LoadRaises ==
    /\ spc = "load"
    /\ manifest_file.exists
    /\ ~manifest_file.json
    /\ calls' = calls \o <<"urls_path.exists", "open">>
    /\ spc' = "crashed"
    /\ UNCHANGED <<buildVars, renderVars, out_dir, manifest_file, port, kill_only, run,
                   initial_probe,
                   proc, probe_log, url_data, output, alive, pending,
                   listener>>

\* url_data = json.load(f)
LoadManifest ==
    /\ spc = "load"
    /\ manifest_file.exists
    /\ manifest_file.json
    /\ calls' = calls \o <<"urls_path.exists", "open">>
    /\ url_data' = [exists |-> TRUE, data |-> manifest_file.data]
    /\ spc' = "rewrite"
    /\ UNCHANGED <<buildVars, renderVars, out_dir, manifest_file, port, kill_only, run,
                   initial_probe,
                   proc, probe_log, output, alive, pending, listener>>

\* the loop "for slide in url_data["slides"]" reaches its end: the list
\* exists and every element has the key "file"
Rewritable(d) ==
    /\ "slides" \in DOMAIN d
    /\ \A j \in DOMAIN d.slides : "file" \in DOMAIN d.slides[j]

\* RewriteEntry keeping the build-time port in the url
RewriteEntryDefaultPort(slide, p) ==
    [k \in DOMAIN slide \cup {"url"} |->
        IF k = "url" THEN SlideUrl(DefaultPort, slide.file) ELSE slide[k]]

\* slide["url"] = f"http://localhost:{port}/slides/{fname}"
RewriteEntry(slide, p) ==
    [k \in DOMAIN slide \cup {"url"} |->
        IF k = "url" THEN SlideUrl(p, slide.file) ELSE slide[k]]

\* url_data["slides"] or slide["file"] raises KeyError: not caught
RewriteRaises ==
    /\ spc = "rewrite"
    /\ ~Rewritable(url_data.data)
    /\ spc' = "crashed"
    /\ UNCHANGED <<buildVars, renderVars, out_dir, manifest_file, port, kill_only, run,
                   initial_probe,
                   proc, calls, probe_log, url_data, output, alive, pending,
                   listener>>

\* for slide in url_data["slides"]: slide["url"] = ...
RewriteUrls ==
    /\ spc = "rewrite"
    /\ Rewritable(url_data.data)
    /\ url_data' = [url_data EXCEPT !.data.slides =
                       [j \in DOMAIN @ |-> RewriteEntry(@[j], port)]]
    /\ spc' = "result"
    /\ UNCHANGED <<buildVars, renderVars, out_dir, manifest_file, port, kill_only, run,
                   initial_probe,
                   proc, calls, probe_log, output, alive, pending, listener>>

\* result = {... "title": url_data["title"] ...} raises KeyError: not caught
ResultRaises ==
    /\ spc = "result"
    /\ "title" \notin DOMAIN url_data.data
    /\ spc' = "crashed"
    /\ UNCHANGED <<buildVars, renderVars, out_dir, manifest_file, port, kill_only, run,
                   initial_probe,
                   proc, calls, probe_log, url_data, output, alive, pending,
                   listener>>

\* EmitReady that also writes the rewritten manifest back to slide-urls.json
EmitReadyPersisting ==
    /\ spc = "result"
    /\ "title" \in DOMAIN url_data.data
    /\ manifest_file' = [exists |-> TRUE, json |-> TRUE,
                         data |-> url_data.data]
    /\ output' = [status |-> "ready",
                  pid |-> proc,
                  port |-> port,
                  base_url |-> [scheme |-> "http", host |-> "localhost",
                                port |-> port],
                  title |-> url_data.data.title,
                  slide_count |-> Len(url_data.data.slides),
                  slides |-> url_data.data.slides,
                  kill_command |-> [script |-> "serve-and-capture.py",
                                    kill_only |-> TRUE, port |-> port]]
    /\ spc' = "returned"
    /\ UNCHANGED <<buildVars, renderVars, out_dir, port, kill_only, run, proc, calls,
                   initial_probe,
                   probe_log, url_data, alive, pending, listener>>

\* result = {...}; print(json.dumps(result))
EmitReady ==
    /\ spc = "result"
    /\ "title" \in DOMAIN url_data.data
    /\ output' = [status |-> "ready",
                  pid |-> proc,
                  port |-> port,
                  base_url |-> [scheme |-> "http", host |-> "localhost",
                                port |-> port],
                  title |-> url_data.data.title,
                  slide_count |-> Len(url_data.data.slides),
                  slides |-> url_data.data.slides,
                  kill_command |-> [script |-> "serve-and-capture.py",
                                    kill_only |-> TRUE, port |-> port]]
    /\ spc' = "returned"
    /\ UNCHANGED <<buildVars, renderVars, out_dir, manifest_file, port, kill_only, run,
                   initial_probe,
                   proc, calls, probe_log, url_data, alive, pending,
                   listener>>

\* a spawned "python -m http.server" binds the free port and starts accepting
ServerBinds ==
    /\ listener = NoProc
    /\ \E p \in pending :
          /\ listener' = p
          /\ pending' = pending \ {p}
    /\ UNCHANGED <<buildVars, renderVars, out_dir, manifest_file, port, kill_only, spc,
                   initial_probe,
                   run, proc, calls, probe_log, url_data, output, alive>>

\* a spawned "python -m http.server" finds the port taken (OSError: address
\* already in use) and exits
ServerBindFails ==
    /\ listener # NoProc
    /\ \E p \in pending :
          /\ alive' = alive \ {p}
          /\ pending' = pending \ {p}
    /\ UNCHANGED <<buildVars, renderVars, out_dir, manifest_file, port, kill_only, spc,
                   initial_probe,
                   run, proc, calls, probe_log, url_data, output, listener>>

NextServe ==
    \/ Invoke
    \/ KillOnly
    \/ Probe
    \/ Evict
    \/ DirMissing
    \/ Spawn
    \/ AwaitProbe
    \/ AwaitExhausted
    \/ ManifestMissing
    \/ LoadRaises
    \/ LoadManifest
    \/ RewriteRaises
    \/ RewriteUrls
    \/ ResultRaises
    \/ EmitReady
    \/ ServerBinds
    \/ ServerBindFails

SpecServe ==
    InitServe /\ [][NextServe]_vars

\* ------------------------------------------------------------------------
\* Properties of the build
\* ------------------------------------------------------------------------
BuildEnded ==
    bpc \in {"done", "exit1", "crashed"}

\* positions of the plan whose upper-cased type tag is registered
Recognized ==
    {k \in 1..Len(slides) : SType(slides[k]) \in BUILDERS}

Links ==
    IF index_html.exists THEN index_html.data.links ELSE <<>>

Entries ==
    IF manifest_file.exists THEN manifest_file.data.slides ELSE <<>>

\* number of page files, index links and manifest entries that slide k produced
PagesOf(k) ==
    Cardinality({f \in DOMAIN pages : pages[f].slide_num = k})

LinksOf(k) ==
    Cardinality({j \in DOMAIN Links : SubSeq(Links[j], 1, 2) = Pad2(k)})

EntriesOf(k) ==
    Cardinality({j \in DOMAIN Entries : Entries[j].index = k})

\* C3: when the build of a plan with at least one recognized slide has ended,
\* it ended successfully with index and manifest written, every unrecognized
\* slide produced no page, link or manifest entry and every recognized slide
\* produced exactly one of each.
C3_SkipUnknownAndSucceed ==
    (BuildEnded /\ Recognized # {}) =>
        /\ bpc = "done"
        /\ index_html.exists
        /\ manifest_file.exists
        /\ \A k \in 1..Len(slides) :
              LET n == IF k \in Recognized THEN 1 ELSE 0
              IN  PagesOf(k) = n /\ LinksOf(k) = n /\ EntriesOf(k) = n

\* C4: the index and the manifest exist only when at least one slide was
\* rendered, and the build of a non-empty plan without a recognized slide
\* ends in an error.
C4_NoArtifactsWhenNothingRendered ==
    /\ (index_html.exists \/ manifest_file.exists) => results # <<>>
    /\ (BuildEnded /\ slides # <<>> /\ Recognized = {}) => bpc # "done"

\* C5 as stated: the manifest indices are 1..k in render order.
C5_IndicesContiguous ==
    manifest_file.exists =>
        \A j \in DOMAIN Entries : Entries[j].index = j

RECURSIVE PositionsFrom(_)
\* the recognized positions k..Len(slides) of the plan, ascending
PositionsFrom(k) ==
    IF k > Len(slides) THEN <<>>
    ELSE IF k \in Recognized THEN <<k>> \o PositionsFrom(k + 1)
    ELSE PositionsFrom(k + 1)

\* C5 (amended): the manifest has one entry per recognized slide, in plan
\* order, whose index is the slide's 1-based position in the plan and whose
\* file name starts with that position, so a skipped slide leaves a gap.
C5_IndicesArePlanPositions ==
    manifest_file.exists =>
        /\ Len(Entries) = Len(PositionsFrom(1))
        /\ \A j \in DOMAIN Entries :
              /\ Entries[j].index = PositionsFrom(1)[j]
              /\ SubSeq(Entries[j].file, 1, 2) = Pad2(PositionsFrom(1)[j])

\* a manifest was written for a plan in which a rendered slide follows a
\* skipped one
C5_Witness ==
    /\ manifest_file.exists
    /\ \E j \in DOMAIN Entries : Entries[j].index > j

\* C10: a plan whose slide list is empty or missing never gets past the
\* check: no directory, page, index or manifest is ever created, and the
\* build ends with exit status 1.
C10_EmptyPlanWritesNothing ==
    slides = <<>> =>
        /\ bpc \in {"start", "exit1"}
        /\ ~out_dir
        /\ ~slides_dir
        /\ pages = NoPages
        /\ ~index_html.exists
        /\ ~manifest_file.exists

\* the build of a plan without a "slides" key has exited with status 1
C10_Witness ==
    /\ bpc = "exit1"
    /\ "slides" \notin DOMAIN plan

\* the steps of main(): everything but the start of an invocation and the
\* steps of the spawned servers
MainStep ==
    \/ KillOnly
    \/ Probe
    \/ Evict
    \/ DirMissing
    \/ Spawn
    \/ AwaitProbe
    \/ AwaitExhausted
    \/ ManifestMissing
    \/ LoadRaises
    \/ LoadManifest
    \/ RewriteRaises
    \/ RewriteUrls
    \/ ResultRaises
    \/ EmitReady

\* main() is sequential code whose calls all return (the sleeps are fixed,
\* the connect has a one second timeout): an invocation that has a next
\* step takes it. Nothing is assumed of the spawned servers.
FairSpecServe ==
    SpecServe /\ WF_vars(MainStep)

\* ------------------------------------------------------------------------
\* Properties of the orchestrator
\* ------------------------------------------------------------------------
Ready ==
    output.status = "ready"

\* C1: the orchestrator is past the readiness loop (loading the manifest,
\* rewriting, or having printed the ready result) only if it called
\* port_in_use after Popen and the last of those probes found the port
\* accepting connections.
C1_ReadyOnlyAfterSuccessfulProbe ==
    (spc \in {"load", "rewrite", "result"} \/ Ready) =>
        /\ probe_log # <<>>
        /\ probe_log[Len(probe_log)]
        /\ \E a, b \in DOMAIN calls :
              a < b /\ calls[a] = "Popen" /\ calls[b] = "port_in_use"

\* a ready result after the first probes of the readiness loop had failed
C1_Witness ==
    /\ Ready
    /\ Len(probe_log) >= 2
    /\ ~probe_log[1]

\* C2: when a serve run has ended in failure after Popen, the process it
\* spawned is no longer running.
C2_NoOrphanOnFailure ==
    (spc \in {"exit1", "crashed"} /\ proc # NoProc) => proc \notin alive

\* C6: once a kill-only invocation has acted it has returned, its only
\* external call was one kill_port, it printed exactly
\* {status: "killed", port}, and it spawned, probed and loaded nothing.
C6_KillOnlyJustEvicts ==
    (kill_only /\ spc # "start") =>
        /\ spc = "returned"
        /\ calls = <<"kill_port">>
        /\ output = [status |-> "killed", port |-> port]
        /\ proc = NoProc
        /\ probe_log = <<>>
        /\ url_data = NoFile

\* a kill-only invocation has returned while the port's holder survived
C6_Witness ==
    /\ kill_only
    /\ spc = "returned"
    /\ output.status = "killed"
    /\ listener = ExtProc

\* C7: in a ready result the slide list has the length and order of the
\* manifest on disk, slide_count is that length, each url is
\* http://localhost:<port>/slides/<file>, every other field and the title
\* are those of the manifest, and port, base_url and kill_command name the
\* requested port.
C7_ReadyResultMirrorsManifest ==
    Ready =>
        LET m == manifest_file.data
        IN  /\ Len(output.slides) = Len(m.slides)
            /\ output.slide_count = Len(m.slides)
            /\ \A j \in DOMAIN m.slides :
                  /\ DOMAIN output.slides[j] = DOMAIN m.slides[j] \cup {"url"}
                  /\ output.slides[j].url = SlideUrl(port, m.slides[j].file)
                  /\ \A k \in DOMAIN m.slides[j] \ {"url"} :
                        output.slides[j][k] = m.slides[j][k]
            /\ output.title = m.title
            /\ output.port = port
            /\ output.base_url.port = port
            /\ output.kill_command.port = port

\* a ready result for two slides on a port other than the build-time one
C7_Witness ==
    /\ Ready
    /\ port # DefaultPort
    /\ Len(output.slides) = 2

\* C8 as stated: after a ready run on another port than 7890 the entries of
\* the manifest on disk are the entries returned to the caller.
C8_ManifestFileRewritten ==
    (Ready /\ port # DefaultPort) =>
        manifest_file.data.slides = output.slides

\* C8 (amended): no step of the orchestrator changes slide-urls.json.
C8_ManifestFileUntouched ==
    [][manifest_file' = manifest_file]_vars

\* a ready result with a live-port url for an entry whose url on disk still
\* has the build-time port
C8_Witness ==
    /\ Ready
    /\ port # DefaultPort
    /\ \E j \in DOMAIN output.slides :
          /\ output.slides[j].url.port = port
          /\ manifest_file.data.slides[j].url.port = DefaultPort

\* C9: at most one process that holds or has held the port is running (a
\* spawned server that has not tried to bind yet is not counted), and when a
\* ready result has been returned the previous occupant is gone and the
\* process accepting connections is the one whose pid was returned.
C9_SingleServerIsTheReturnedOne ==
    /\ Cardinality(alive \ pending) <= 1
    /\ Ready => (listener = output.pid /\ alive = {output.pid})

\* the port was still held after kill_port and the server spawned by this
\* invocation has exited without the orchestrator terminating it: its bind
\* failed
BindFailedAfterEviction ==
    /\ proc # NoProc
    /\ proc \notin alive
    /\ listener # NoProc
    /\ \E k \in DOMAIN calls : calls[k] = "kill_port"
    /\ \A k \in DOMAIN calls : calls[k] # "terminate"

\* C15: when the eviction left the occupant on the port and the spawned
\* server failed to bind, the orchestrator does not return a ready result.
C15_BindFailureNeverReady ==
    BindFailedAfterEviction => ~Ready

\* the positions of a call in the calls of this invocation
CallsOf(name) ==
    {k \in DOMAIN calls : calls[k] = name}

\* C17: in a serve run the first call is the probe of the port; once the
\* run is past the eviction step, kill_port has been called exactly when
\* that probe found the port accepting connections, once, right after the
\* probe; Popen is called at most once and after the eviction; and when the
\* output directory does not exist the run ends with exit status 1 without
\* having called Popen.
C17_ProbeEvictSpawnOrder ==
    (~kill_only /\ spc \notin {"idle", "start"}) =>
        /\ calls[1] = "port_in_use"
        /\ Len(initial_probe) = 1
        /\ spc = "evict" => (initial_probe[1] /\ CallsOf("kill_port") = {})
        /\ spc # "evict" =>
              CallsOf("kill_port") = IF initial_probe[1] THEN {2} ELSE {}
        /\ Cardinality(CallsOf("Popen")) <= 1
        /\ \A k \in CallsOf("kill_port"), s \in CallsOf("Popen") : k < s
        /\ \A s \in CallsOf("Popen"), a \in DOMAIN probe_log :
              \E b \in CallsOf("port_in_use") : s < b
        /\ proc # NoProc <=> CallsOf("Popen") # {}
        /\ (~out_dir /\ spc # "evict" /\ spc # "check_dir") =>
              (spc = "exit1" /\ CallsOf("Popen") = {})

\* a run that found the port in use, evicted, spawned and is polling
C17_Witness ==
    /\ ~kill_only
    /\ spc = "await"
    /\ initial_probe = <<TRUE>>
    /\ SubSeq(calls, 1, 4) = <<"port_in_use", "kill_port", "out_dir.exists", "Popen">>
    /\ probe_log # <<>>

\* the readiness loop has run out: twenty probes, the last one failed too
Exhausted ==
    /\ Len(probe_log) = MaxRetries
    /\ ~probe_log[MaxRetries]

\* C16: every invocation that has started ends (ready, killed or failed),
\* whatever the spawned server does; the readiness loop makes at most
\* MaxRetries probes; no probe follows a successful one, which takes the run
\* out of the loop; and a run whose probes have all failed ends with exit
\* status 1 after terminating the process it spawned.
C16_InvocationTerminates ==
    /\ [](/\ Len(probe_log) <= MaxRetries
          /\ \A k \in 1..(Len(probe_log) - 1) : ~probe_log[k]
          /\ (probe_log # <<>> /\ probe_log[Len(probe_log)]) => spc # "await"
          /\ (Exhausted /\ spc # "await") =>
                /\ spc = "exit1"
                /\ proc \notin alive
                /\ calls[Len(calls)] = "terminate")
    /\ (spc = "start") ~> SpcEnded

\* a run that ended in failure after twenty failed probes, its server
\* terminated
C16_Witness ==
    /\ spc = "exit1"
    /\ Exhausted
    /\ proc # NoProc
    /\ proc \notin alive

\* ------------------------------------------------------------------------
\* File names of one build
\* ------------------------------------------------------------------------
RECURSIVE NumOf(_)
\* the number written by a sequence of decimal digits
NumOf(ds) ==
    IF ds = <<>> THEN 0
    ELSE NumOf(SubSeq(ds, 1, Len(ds) - 1)) * 10
            + (CHOOSE k \in DOMAIN Digits : Digits[k] = ds[Len(ds)]) - 1

\* the numeric prefix of a file name: the digits in front of its first "-"
PrefixNum(fname) ==
    LET dash == CHOOSE k \in DOMAIN fname :
                    fname[k] = "-" /\ \A j \in 1..(k - 1) : fname[j] # "-"
    IN  NumOf(SubSeq(fname, 1, dash - 1))

\* C11: the file names written so far are pairwise distinct, their numeric
\* prefixes increase strictly in render order, the page files on disk are
\* exactly these names, and the index document and the manifest, once
\* written, list exactly these names in the same order.
C11_FilenamesDistinctAndOrdered ==
    /\ \A a, b \in DOMAIN slide_files :
          a < b => /\ slide_files[a] # slide_files[b]
                   /\ PrefixNum(slide_files[a]) < PrefixNum(slide_files[b])
    /\ DOMAIN pages = {slide_files[a] : a \in DOMAIN slide_files}
    /\ index_html.exists => Links = slide_files
    /\ manifest_file.exists =>
          /\ Len(Entries) = Len(slide_files)
          /\ \A j \in DOMAIN Entries : Entries[j].file = slide_files[j]

\* a finished build of a plan with a skipped slide followed by two slides of
\* the same type
C11_Witness ==
    /\ bpc = "done"
    /\ Len(slide_files) = 2
    /\ Len(slides) = 3
    /\ SType(slides[2]) = SType(slides[3])

\* ------------------------------------------------------------------------
\* The font reference
\* ------------------------------------------------------------------------
\* the family name of a query term: the text between "family=" and ":"
FamilyOf(term) ==
    LET colon == CHOOSE k \in DOMAIN term :
                     term[k] = ":" /\ \A j \in 1..(k - 1) : term[j] # ":"
    IN  SubSeq(term, Len(FamilyEq) + 1, colon - 1)

TermsFor(name) ==
    {k \in DOMAIN google_fonts_url.query :
        FamilyOf(google_fonts_url.query[k]) = Replace(name, " ", "+")}

\* the fonts record with the values of "display" and "body" exchanged
Swapped(f) ==
    [k \in {x \in {"display", "body"} :
               (IF x = "display" THEN "body" ELSE "display") \in DOMAIN f}
        |-> IF k = "display" THEN f.body ELSE f.display]

\* C12: once computed, the font reference has exactly one term for the
\* fallback family Inter, exactly one term for every family named in the
\* fonts record, no other term, and is the reference that the record with
\* display and body exchanged yields.
C12_OneFallbackTerm ==
    bpc \notin {"start", "exit1"} =>
        /\ Cardinality(TermsFor(F_Inter)) = 1
        /\ \A k \in DOMAIN fonts : Cardinality(TermsFor(fonts[k])) = 1
        /\ Len(google_fonts_url.query)
              = Cardinality({fonts[k] : k \in DOMAIN fonts} \cup {F_Inter})
        /\ google_fonts_url = build_google_fonts_url(Swapped(fonts))

\* ------------------------------------------------------------------------
\* The slide builders
\* ------------------------------------------------------------------------
MaxItems ==
    2

\* JSON values
Text(s) ==
    [kind |-> "text", s |-> s]

Num(n) ==
    [kind |-> "int", n |-> n]

List(xs) ==
    [kind |-> "list", xs |-> xs]

Obj(o) ==
    [kind |-> "object", o |-> o]

EmptyObj ==
    [k \in {} |-> 0]

\* f"{n:02d}" inside a fragment
Padded(n) ==
    [kind |-> "02d", digits |-> Pad2(n)]

\* the truth value Python gives a value in "if value"
Truthy(v) ==
    CASE v.kind = "text" -> v.s # ""
      [] v.kind = "int" -> v.n # 0
      [] v.kind = "list" -> v.xs # <<>>
      [] v.kind = "object" -> DOMAIN v.o # {}

\* "for x in value" raises TypeError for a number; the list-valued fields of
\* the model hold lists or numbers
Iterable(v) ==
    v.kind # "int"

\* value.get(...) raises AttributeError unless the value is an object
HasGet(v) ==
    v.kind = "object"

\* f"{value:02d}" raises unless the value is an integer
Formats02d(v) ==
    v.kind = "int"

\* one markup element of a fragment: its class and the value interpolated
El(cls, v) ==
    [cls |-> cls, val |-> v]

\* f'<...>{v}</...>' if v else ''
Opt(cls, v) ==
    IF Truthy(v) THEN <<El(cls, v)>> ELSE <<>>

RECURSIVE Each(_, _)
\* one element of class cls per element of a list, in list order
Each(cls, xs) ==
    IF xs = <<>> THEN <<>>
    ELSE <<El(cls, Head(xs))>> \o Each(cls, Tail(xs))

Returned(els) ==
    [ok |-> TRUE, els |-> els]

Raised ==
    [ok |-> FALSE, els |-> <<>>]

\* slide_hero with the subtitle paragraph written unconditionally
slide_hero_subtitle_always(c, idx) ==
    LET heroTitle == Get(c, "title", Text(""))
        subtitle  == Get(c, "subtitle", Text(""))
        tagline   == Get(c, "tagline", Text(""))
        author    == Get(c, "author", Text(""))
        date      == Get(c, "date", Text(""))
    IN  Returned(
            Opt("hero-tagline", tagline)
            \o <<El("hero-title", heroTitle)>>
            \o Opt("hero-author", author)
            \o (IF Truthy(date) /\ Truthy(author)
                THEN <<El("hero-sep", Text(".")), El("hero-date", date)>>
                ELSE Opt("hero-date", date))
            \o <<El("hero-subtitle", subtitle)>>
            \o <<El("hero-deco-num", Text("01"))>>)

slide_hero(c, idx) ==
    LET heroTitle == Get(c, "title", Text(""))
        subtitle  == Get(c, "subtitle", Text(""))
        tagline   == Get(c, "tagline", Text(""))
        author    == Get(c, "author", Text(""))
        date      == Get(c, "date", Text(""))
    IN  Returned(
            Opt("hero-tagline", tagline)
            \o <<El("hero-title", heroTitle)>>
            \o Opt("hero-author", author)
            \o (IF Truthy(date) /\ Truthy(author)
                THEN <<El("hero-sep", Text(".")), El("hero-date", date)>>
                ELSE Opt("hero-date", date))
            \o Opt("hero-subtitle", subtitle)
            \o <<El("hero-deco-num", Text("01"))>>)

RECURSIVE AgendaItems(_, _)
\* for i, item in enumerate(items): agenda-num f"{i+1:02d}", agenda-text
AgendaItems(xs, done) ==
    IF xs = <<>> THEN <<>>
    ELSE <<El("agenda-num", Padded(done + 1)), El("agenda-text", Head(xs))>>
            \o AgendaItems(Tail(xs), done + 1)

slide_agenda(c, idx) ==
    LET heading       == Get(c, "heading", Text("Agenda"))
        section_label == Get(c, "sectionLabel", Text("OVERVIEW"))
        items         == Get(c, "items", List(<<>>))
    IN  IF ~Iterable(items) THEN Raised
        ELSE Returned(
                <<El("section-label", section_label),
                  El("agenda-heading", heading)>>
                \o AgendaItems(items.xs, 0)
                \o <<El("slide-num", Padded(idx))>>)

slide_content(c, idx) ==
    LET heading       == Get(c, "heading", Text(""))
        section_label == Get(c, "sectionLabel", Text(""))
        body          == Get(c, "body", Text(""))
        bullets       == Get(c, "bullets", List(<<>>))
        imageHint     == Get(c, "imageHint", Text(""))
    IN  IF ~Iterable(bullets) THEN Raised
        ELSE Returned(
                Opt("section-label", section_label)
                \o <<El("content-heading", heading)>>
                \o Opt("content-body-text", body)
                \o (IF Truthy(bullets)
                    THEN <<El("content-bullets", bullets)>>
                            \o Each("content-bullet", bullets.xs)
                    ELSE <<>>)
                \o Opt("content-image-hint", imageHint)
                \o <<El("slide-num", Padded(idx))>>)

\* col_html(col) of slide_two_col
col_html(col) ==
    IF ~HasGet(col) THEN Raised
    ELSE LET h     == Get(col.o, "heading", Text(""))
             body  == Get(col.o, "body", Text(""))
             items == Get(col.o, "bullets", List(<<>>))
         IN  IF ~Iterable(items) THEN Raised
             ELSE Returned(
                     <<El("twocol-card", col), El("col-heading", h)>>
                     \o Opt("col-body", body)
                     \o (IF Truthy(items)
                         THEN <<El("col-bullets", items)>>
                                 \o Each("col-bullet", items.xs)
                         ELSE <<>>))

slide_two_col(c, idx) ==
    LET heading       == Get(c, "heading", Text(""))
        section_label == Get(c, "sectionLabel", Text(""))
        left          == col_html(Get(c, "leftCol", Obj(EmptyObj)))
        right         == col_html(Get(c, "rightCol", Obj(EmptyObj)))
    IN  IF ~left.ok \/ ~right.ok THEN Raised
        ELSE Returned(
                Opt("section-label", section_label)
                \o <<El("content-heading", heading)>>
                \o left.els \o right.els
                \o <<El("slide-num", Padded(idx))>>)

RECURSIVE StatCards(_)
\* for s in stats: one stat-card each
StatCards(xs) ==
    IF xs = <<>> THEN <<>>
    ELSE LET s == Head(xs).o
         IN  <<El("stat-card", Head(xs)),
               El("stat-number", Get(s, "number", Text(""))),
               El("stat-label", Get(s, "label", Text("")))>>
             \o Opt("stat-trend", Get(s, "trend", Text("")))
             \o Opt("stat-desc", Get(s, "description", Text("")))
             \o StatCards(Tail(xs))

slide_stats(c, idx) ==
    LET heading       == Get(c, "heading", Text(""))
        section_label == Get(c, "sectionLabel", Text(""))
        stats         == Get(c, "stats", List(<<>>))
    IN  IF ~Iterable(stats) THEN Raised
        ELSE IF \E k \in DOMAIN stats.xs : ~HasGet(stats.xs[k]) THEN Raised
        ELSE Returned(
                Opt("section-label", section_label)
                \o <<El("content-heading", heading)>>
                \o StatCards(stats.xs)
                \o <<El("slide-num", Padded(idx))>>)

slide_quote(c, idx) ==
    LET quote       == Get(c, "quote", Text(""))
        attribution == Get(c, "attribution", Text(""))
        role        == Get(c, "role", Text(""))
    IN  Returned(
            <<El("quote-text", quote)>>
            \o Opt("quote-name", attribution)
            \o Opt("quote-role", role)
            \o <<El("slide-num", Padded(idx))>>)

slide_divider(c, idx) ==
    LET num        == Get(c, "sectionNumber", Num(idx))
        divTitle   == Get(c, "sectionTitle", Text(""))
        desc       == Get(c, "description", Text(""))
    IN  IF ~Formats02d(num) THEN Raised
        ELSE Returned(
                <<El("div-big-num", Padded(num.n)),
                  El("section-label", Padded(num.n)),
                  El("div-title", divTitle)>>
                \o Opt("div-desc", desc))

slide_closing(c, idx) ==
    LET tagline    == Get(c, "tagline", Text("THANK YOU"))
        heading    == Get(c, "heading", Text("Let's Build Together"))
        subheading == Get(c, "subheading", Text(""))
        takeaways  == Get(c, "keyTakeaways", List(<<>>))
        cta        == Get(c, "cta", Text(""))
        contact    == Get(c, "contactInfo", Text(""))
    IN  IF ~Iterable(takeaways) THEN Raised
        ELSE Returned(
                <<El("closing-tagline", tagline),
                  El("closing-heading", heading)>>
                \o Opt("closing-subheading", subheading)
                \o Opt("closing-cta", cta)
                \o (IF Truthy(takeaways)
                    THEN <<El("closing-takeaways", takeaways)>>
                            \o Each("closing-takeaway", takeaways.xs)
                    ELSE <<>>)
                \o Opt("closing-contact", contact))

\* builder = BUILDERS.get(stype); builder(content, i, palette, fonts)
builder(stype, c, idx) ==
    CASE stype = T_HERO    -> slide_hero(c, idx)
      [] stype = T_AGENDA  -> slide_agenda(c, idx)
      [] stype = T_CONTENT -> slide_content(c, idx)
      [] stype = T_TWO_COL -> slide_two_col(c, idx)
      [] stype = T_STATS   -> slide_stats(c, idx)
      [] stype = T_QUOTE   -> slide_quote(c, idx)
      [] stype = T_DIVIDER -> slide_divider(c, idx)
      [] stype = T_CLOSING -> slide_closing(c, idx)

\* ------------------------------------------------------------------------
\* One builder call on bounded content records
\* ------------------------------------------------------------------------
TextVals ==
    {Text(""), Text("T")}

\* values of the list-valued fields: lists of texts, and a number
ListVals ==
    {List(xs) : xs \in SeqsUpTo({Text("a"), Text("b")}, MaxItems)}
        \cup {Num(5)}

\* values of leftCol / rightCol: records, and a text
ColVals ==
    { Obj(EmptyObj),
      Obj([heading |-> Text("T"), body |-> Text("T"),
           bullets |-> List(<<Text("a")>>)]),
      Obj([bullets |-> Num(5)]),
      Text("x") }

\* values of stats: lists of records and of numbers, and a number
StatVals ==
    LET elems == { Obj([number |-> Text("9"), label |-> Text("L")]),
                   Obj([number |-> Text("9"), label |-> Text("L"),
                        trend |-> Text("up"), description |-> Text("d")]),
                   Num(1) }
    IN  {List(xs) : xs \in SeqsUpTo(elems, MaxItems)} \cup {Num(5)}

\* values of sectionNumber: an integer and a text
SectionNumberVals ==
    {Num(2), Text("one")}

\* the fields each builder reads, with the values the model gives them
Fields(stype) ==
    CASE stype = T_HERO ->
            << <<"title", TextVals>>, <<"subtitle", TextVals>>,
               <<"tagline", TextVals>>, <<"author", TextVals>>,
               <<"date", TextVals>> >>
      [] stype = T_AGENDA ->
            << <<"heading", TextVals>>, <<"sectionLabel", TextVals>>,
               <<"items", ListVals>> >>
      [] stype = T_CONTENT ->
            << <<"heading", TextVals>>, <<"sectionLabel", TextVals>>,
               <<"body", TextVals>>, <<"bullets", ListVals>>,
               <<"imageHint", TextVals>> >>
      [] stype = T_TWO_COL ->
            << <<"heading", TextVals>>, <<"sectionLabel", TextVals>>,
               <<"leftCol", ColVals>>, <<"rightCol", ColVals>> >>
      [] stype = T_STATS ->
            << <<"heading", TextVals>>, <<"sectionLabel", TextVals>>,
               <<"stats", StatVals>> >>
      [] stype = T_QUOTE ->
            << <<"quote", TextVals>>, <<"attribution", TextVals>>,
               <<"role", TextVals>> >>
      [] stype = T_DIVIDER ->
            << <<"sectionNumber", SectionNumberVals>>,
               <<"sectionTitle", TextVals>>, <<"description", TextVals>> >>
      [] stype = T_CLOSING ->
            << <<"tagline", TextVals>>, <<"heading", TextVals>>,
               <<"subheading", TextVals>>, <<"keyTakeaways", ListVals>>,
               <<"cta", TextVals>>, <<"contactInfo", TextVals>> >>

RECURSIVE Contents(_)
\* the content records over a list of fields: every field absent or holding
\* one of its values
Contents(fs) ==
    IF fs = <<>> THEN {EmptyObj}
    ELSE LET rest == Contents(Tail(fs))
         IN  rest \cup {WriteFile(r, Head(fs)[1], v) :
                           r \in rest, v \in Head(fs)[2]}

InitRender ==
    /\ buildIdle
    /\ serveIdle
    /\ out_dir = FALSE
    /\ manifest_file = NoFile
    /\ r_stype \in BUILDERS
    /\ r_content \in Contents(Fields(r_stype))
    /\ r_idx \in {1, 12}
    /\ rpc = "call"
    /\ slide_html = <<>>

\* slide_html = builder(content, i, palette, fonts)
CallReturns ==
    /\ rpc = "call"
    /\ builder(r_stype, r_content, r_idx).ok
    /\ slide_html' = builder(r_stype, r_content, r_idx).els
    /\ rpc' = "returned"
    /\ UNCHANGED <<buildVars, out_dir, manifest_file, serveVars, r_stype,
                   r_content, r_idx>>

\* the call raises: no fragment
CallRaises ==
    /\ rpc = "call"
    /\ ~builder(r_stype, r_content, r_idx).ok
    /\ rpc' = "raised"
    /\ UNCHANGED <<buildVars, out_dir, manifest_file, serveVars, r_stype,
                   r_content, r_idx, slide_html>>

NextRender ==
    \/ CallReturns
    \/ CallRaises

SpecRender ==
    InitRender /\ [][NextRender]_vars

\* ------------------------------------------------------------------------
\* Properties of the builders
\* ------------------------------------------------------------------------
\* the class of the markup element that carries each content field
FieldClass(stype) ==
    CASE stype = T_HERO ->
            [title |-> "hero-title", subtitle |-> "hero-subtitle",
             tagline |-> "hero-tagline", author |-> "hero-author",
             date |-> "hero-date"]
      [] stype = T_AGENDA ->
            [heading |-> "agenda-heading", sectionLabel |-> "section-label",
             items |-> "agenda-text"]
      [] stype = T_CONTENT ->
            [heading |-> "content-heading", sectionLabel |-> "section-label",
             body |-> "content-body-text", bullets |-> "content-bullets",
             imageHint |-> "content-image-hint"]
      [] stype = T_TWO_COL ->
            [heading |-> "content-heading", sectionLabel |-> "section-label",
             leftCol |-> "twocol-card", rightCol |-> "twocol-card"]
      [] stype = T_STATS ->
            [heading |-> "content-heading", sectionLabel |-> "section-label",
             stats |-> "stat-card"]
      [] stype = T_QUOTE ->
            [quote |-> "quote-text", attribution |-> "quote-name",
             role |-> "quote-role"]
      [] stype = T_DIVIDER ->
            [sectionNumber |-> "div-big-num", sectionTitle |-> "div-title",
             description |-> "div-desc"]
      [] stype = T_CLOSING ->
            [tagline |-> "closing-tagline", heading |-> "closing-heading",
             subheading |-> "closing-subheading",
             keyTakeaways |-> "closing-takeaways", cta |-> "closing-cta",
             contactInfo |-> "closing-contact"]

\* the fields whose element is written whether or not the field is given
AlwaysRendered(stype) ==
    CASE stype = T_HERO    -> {"title"}
      [] stype = T_AGENDA  -> {"heading", "sectionLabel"}
      [] stype = T_CONTENT -> {"heading"}
      [] stype = T_TWO_COL -> {"heading", "leftCol", "rightCol"}
      [] stype = T_STATS   -> {"heading"}
      [] stype = T_QUOTE   -> {"quote"}
      [] stype = T_DIVIDER -> {"sectionNumber", "sectionTitle"}
      [] stype = T_CLOSING -> {"tagline", "heading"}

HasEl(cls) ==
    \E k \in DOMAIN slide_html : slide_html[k].cls = cls

\* the field is given and its value is not empty
Given(f) ==
    f \in DOMAIN r_content /\ Truthy(r_content[f])

C14_BuilderNeverRaises ==
    rpc # "raised"

====
